---- MODULE Spec2Model ----
(***************************************************************************)
(* Credit accounting of the editimageai backends.                          *)
(*                                                                         *)
(* The repository holds several variants of one Express/Supabase server.   *)
(* All of them keep, per account, an integer balance (user_profiles        *)
(* .credits), a log of balance changes (credit_transactions) and a log of  *)
(* generation attempts (image_edits / headshot_generations), and call an   *)
(* external provider (replicate.run).  The state below is the database;    *)
(* every HTTP request is a process whose steps are the awaited calls of    *)
(* its handler, so that two requests interleave exactly where the          *)
(* handlers await.                                                         *)
(*                                                                         *)
(* update_user_credits is a PL/pgSQL function.  It runs as one             *)
(* transaction, so its UPDATE and INSERT take effect together, but at      *)
(* PostgreSQL's default isolation level (READ COMMITTED) its SELECT takes  *)
(* no lock: another transaction may commit between the SELECT and the      *)
(* UPDATE, and the UPDATE (credits = credits + credit_change) then applies *)
(* to the row as last committed.  A debit is therefore two steps, the      *)
(* SELECT with its check and the UPDATE with its INSERT.  For a positive   *)
(* credit_change the SELECT's result is not used and one step is exact.    *)
(***************************************************************************)
EXTENDS Integers, Sequences, FiniteSets, TLC

\* ---------------------------------------------------------------- bounds
\* Number of HTTP requests of one behaviour.
MaxReqs == 2

\* Largest balance an existing account starts a behaviour with.
MaxInitBalance == 1

\* Rows an account's past holds beyond the limit of a listing.
MaxOver == 1

\* --------------------------------------------------- program constants
\* handle_new_user / manual profile insert: 10 free credits.
WelcomeBonus == 10

\* credit_change: -1, credits_used: 1: one credit per generation.
Cost == 1

\* .limit(20) of the history listings, .limit(50) of /api/user/transactions.
HistoryLimit == 20

TransactionsLimit == 50

\* Accounts (auth.users ids).  alice is registered, bob is not yet.
Accounts == {"alice", "bob"}

\* Credits bought by one purchase request or one checkout session.
Amounts == {2}

\* The amounts a purchase request's body may carry.  0 also stands for a
\* body without amount: !amount holds for undefined and for 0 alike.
PurchaseInputs == {-1, 0, 1, 2}

Reqs == 1..MaxReqs

\* Handlers that call the provider.
GenKinds ==
    {"imageEdit", "headshotAuth", "generate2", "headshotCredits", "apiHeadshot"}

\* Handlers that debit before calling the provider.
ReserveFirst == {"headshotAuth", "generate2"}

\* Handlers that sell credits for the amount in the request's body.
PurchaseKinds == {"purchase", "buyCredits", "apiPurchase", "purchaseCredits"}

\* Handlers that list an account's rows.
ListKinds == {"history", "transactions"}

Kinds == GenKinds \cup PurchaseKinds \cup ListKinds \cup {"webhook", "signup"}

VARIABLES
    auth_users,           \* auth.users: the registered accounts
    user_profiles,        \* user_profiles: account -> row
    credit_transactions,  \* credit_transactions: rows, oldest first
    generations,          \* image_edits / headshot_generations rows
    req                   \* the requests: Reqs -> handler state

vars == <<auth_users, user_profiles, credit_transactions, generations, req>>

\* ---------------------------------------------------------------- rows
NoProfile == [present |-> FALSE, credits |-> 0, total_credits_purchased |-> 0]

Profile(c, t) == [present |-> TRUE, credits |-> c, total_credits_purchased |-> t]

\* req = 0 marks rows written before the behaviour starts.
TxRow(u, amt, type, r) ==
    [user_id |-> u, amount |-> amt, transaction_type |-> type, req |-> r]

GenRow(u, st, url, used, r) ==
    [user_id |-> u, status |-> st, image_url |-> url, credits_used |-> used,
     req |-> r]

\* id ... PRIMARY KEY, created_at ... DEFAULT NOW(): the columns the
\* database fills in.  Ids are given in order of insertion.
Stamp(row, n, t) == [id |-> n, created_at |-> t] @@ row

\* NOW() of an insert.  Within a behaviour the clock has advanced since the
\* table's last insert; rows with equal created_at are part of the past
\* (InitHistory).
Now(table) ==
    IF table = <<>> THEN 1 ELSE table[Len(table)].created_at + 1

Insert(table, row) == Append(table, Stamp(row, Len(table) + 1, Now(table)))

IdleReq ==
    [kind |-> "none", user |-> "none", pc |-> "idle",
     authenticated |-> FALSE,           \* has the handler read the profile
     credits |-> 0, total |-> 0,        \* req.user / profile as read
     amount |-> 0,                      \* purchase amount / session credits
     session |-> 0,                     \* webhook: the checkout session, named
                                        \* by the request that delivered it first
     current_credits |-> 0,             \* update_user_credits' local
     rpc |-> "none",                    \* the debit rpc: none|true|false|error
     ran |-> 0, output |-> "none",      \* replicate.run: calls, ok|fail
     paidAtRun |-> FALSE,               \* was the debit applied when it ran
     debited |-> 0, credited |-> 0,     \* balance changes this request made
     refund |-> "none",                 \* the refund rpc: none|true|error|thrown
     refundError |-> FALSE,             \* console.error('Refund error:') written
     rows |-> <<>>, seen |-> 0,         \* a listing: the rows returned, and
                                        \* the table's length when it was read
     token |-> "valid",                 \* the token sent: valid|invalid|none
     file |-> "none",                   \* the uploaded file on disk:
                                        \* none|stored|deleted
     res |-> "none"]                    \* the HTTP response

\* ------------------------------------------------------------ helpers
RECURSIVE SumAmounts(_)
SumAmounts(s) ==
    IF s = <<>> THEN 0 ELSE Head(s).amount + SumAmounts(Tail(s))

RowsOf(s, u) == SelectSeq(s, LAMBDA row : row.user_id = u)

RowsOfReq(s, r) == SelectSeq(s, LAMBDA row : row.req = r)

\* sum(amount) of the account's credit_transactions rows
LedgerSum(u) == SumAmounts(RowsOf(credit_transactions, u))

\* the balance the account had when the behaviour started
Opening(u) == SumAmounts(RowsOfReq(RowsOf(credit_transactions, u), 0))

Set(r, f) == req' = [req EXCEPT ![r] = f]

\* Handlers whose upload is written to disk (multer with dest or
\* diskStorage, formidable).  server.js keeps the upload in memory.
DiskKinds == {"headshotAuth", "headshotCredits", "generate2", "apiHeadshot"}

\* fs.unlinkSync(req.file.path)
unlinkSync(q) == [q EXCEPT !.file = IF @ = "stored" THEN "deleted" ELSE @]

\* What a handler does with the uploaded file on the way to its response.
\* server_with_auth.js unlinks before every response.  server_with_credits
\* .js unlinks tempFilePath in its finally block, and sets tempFilePath
\* after the insufficient-credits return.  server 2.js /api/generate
\* unlinks before its success response only.  api/auth/generate-headshot.js
\* never unlinks.
Cleanup(q, status) ==
    IF \/ q.kind = "headshotAuth"
       \/ q.kind = "headshotCredits" /\ status # "insufficient"
       \/ q.kind = "generate2" /\ status = "ok"
        THEN unlinkSync(q)
        ELSE q

\* creditsRemaining / newBalance of the success response to q.  server_with_auth
\* .js (updatedProfile?.credits || 0) and /api/auth/purchase
\* (updatedUser?.credits || req.user.credits + amount) read the profile
\* again; the other handlers compute the balance from what they read at
\* the start.
Reported(q) ==
    LET stored == user_profiles[q.user].credits
    IN  CASE q.kind = "headshotAuth" -> stored
          [] q.kind = "purchase" ->
                IF stored # 0 THEN stored ELSE q.credits + q.amount
          [] q.kind \in {"imageEdit", "apiHeadshot", "headshotCredits",
                         "generate2"} -> q.credits - 1
          [] OTHER -> 0

Respond(q, status) == [Cleanup(q, status) EXCEPT !.pc = "done", !.res = status]

\* ---------------------------------------------------------------- Init
\* An account that was registered through the trigger and then used
\* WelcomeBonus - b credits on completed generations.
History(u, b) ==
    <<Stamp(TxRow(u, WelcomeBonus, "bonus", 0), 1, 1)>> \o
    [i \in 1..(WelcomeBonus - b) |->
        Stamp(TxRow(u, -Cost, "usage", 0), i + 1, i + 1)]

PastGenerations(u, b) ==
    [i \in 1..(WelcomeBonus - b) |->
        Stamp(GenRow(u, "completed", TRUE, Cost, 0), i, i + 1)]

Init ==
    \E b \in 0..MaxInitBalance :
        /\ auth_users = {"alice"}
        /\ user_profiles =
               [u \in Accounts |-> IF u = "alice" THEN Profile(b, 0) ELSE NoProfile]
        /\ credit_transactions = History("alice", b)
        /\ generations = PastGenerations("alice", b)
        /\ req = [r \in Reqs |-> IdleReq]

\* ------------------------------------------------------------- requests
\* A request arrives with the first awaited call of its handler.  Requests
\* are numbered in order of arrival.
Arrives(r) ==
    /\ req[r].pc = "idle"
    /\ \A q \in Reqs : q < r => req[q].pc # "idle"

NewReq(k, u, n) == [IdleReq EXCEPT !.kind = k, !.user = u, !.amount = n]

\* if (req.user.credits < 1)
InsufficientMut(c) == c < 0
Insufficient(c) == c < 1

\* if (!amount || amount <= 0)
InvalidAmount(n) == n = 0 \/ n <= 0

\* The answer to a request without token, or with a token that jwt.verify
\* or auth.getUser refuses.  The middlewares answer 401 for both.  The
\* handlers of api/auth answer 401 for a missing token; jwt.verify throws
\* for a bad one: in unnamed/part_001 into the handler's catch (500), in
\* generate-headshot.js out of the async form.parse callback, where nothing
\* catches it and no response is sent.
Rejected(q) ==
    CASE q.kind = "apiHeadshot" /\ q.token = "invalid" -> Respond(q, "none")
      [] q.kind = "apiPurchase" /\ q.token = "invalid" -> Respond(q, "error")
      [] OTHER -> Respond(q, "unauthorized")

\* authenticateUser, then the handler up to its first awaited call.
\* upload.single('image') runs after the middleware; formidable's
\* form.parse runs before the token is looked at.
Authenticated(q0) ==
    LET q == IF q0.kind = "apiHeadshot" THEN [q0 EXCEPT !.file = "stored"] ELSE q0
        p == user_profiles[q.user]
        seen == [q EXCEPT !.authenticated = TRUE, !.credits = p.credits,
                          !.total = p.total_credits_purchased,
                          !.file = IF q.kind \in DiskKinds THEN "stored" ELSE @]
    IN  IF q.token # "valid"
           THEN Rejected(q)
        ELSE IF q.kind \in {"generate2", "buyCredits"}
           \* supabase.auth.getUser(token): the profile is read later
           THEN IF q.user \in auth_users
                   THEN [q EXCEPT !.authenticated = (q.kind = "buyCredits"),
                                  !.file = IF q.kind = "generate2"
                                              THEN "stored" ELSE @,
                                  !.pc = IF q.kind = "generate2"
                                            THEN "profile" ELSE "buy"]
                   ELSE Respond(q, "unauthorized")
        ELSE IF q.kind = "apiPurchase"
           \* jwt.verify(token) alone: the profile is not read
           THEN IF q.user \notin auth_users
                   THEN Respond(q, "unauthorized")
                ELSE IF InvalidAmount(q.amount)
                   THEN Respond([q EXCEPT !.authenticated = TRUE], "invalid")
                ELSE [q EXCEPT !.authenticated = TRUE, !.pc = "apiCredit"]
        ELSE IF ~p.present
           THEN Respond(q, "unauthorized")
        ELSE IF q.kind = "purchase"
           THEN IF InvalidAmount(q.amount)
                   THEN Respond(seen, "invalid")
                   ELSE [seen EXCEPT !.pc = "credit"]
        ELSE IF q.kind = "purchaseCredits"
           \* if (!packageId): a body that names no package carries no
           \* positive amount
           THEN IF q.amount <= 0
                   THEN Respond(seen, "invalid")
                   ELSE [seen EXCEPT !.pc = "mockTx"]
        ELSE IF Insufficient(p.credits)
           THEN Respond(seen, "insufficient")
        ELSE [seen EXCEPT !.pc =
                 IF q.kind = "headshotAuth" THEN "debitSel" ELSE "run"]

\* The requests of `kinds` as they stand after authentication; a purchase
\* carries one of `amounts`.
Arriving(kinds, amounts) ==
    {Authenticated(NewReq(k, u, IF k \in PurchaseKinds THEN n ELSE 0)) :
        k \in kinds, u \in Accounts, n \in amounts}

authenticateUser(r) ==
    /\ Arrives(r)
    /\ \E q \in Arriving(GenKinds \cup {"purchase"}, Amounts) : Set(r, q)
    /\ UNCHANGED <<auth_users, user_profiles, credit_transactions, generations>>

\* ------------------------------------------------ update_user_credits
\* IF credit_change < 0 AND current_credits + credit_change < 0 THEN
\*   RETURN FALSE
CheckFailsMut(cur, change) == change < 0 /\ cur < 0
CheckFails(cur, change) == change < 0 /\ cur + change < 0

\* UPDATE user_profiles SET credits = credits + credit_change WHERE id = u
\* (no row is updated when the account has no profile)
CreditedMut(u, change) ==
    [a \in Accounts |->
        IF user_profiles[a].present
            THEN [user_profiles[a] EXCEPT !.credits = @ + change]
            ELSE user_profiles[a]]
Credited(u, change) ==
    IF user_profiles[u].present
        THEN [user_profiles EXCEPT ![u].credits = @ + change]
        ELSE user_profiles

\* INSERT INTO credit_transactions (user_id, amount, transaction_type, ..)
LoggedMut(u, change, type, r) ==
    [credit_transactions EXCEPT
        ![Len(credit_transactions)] =
            Stamp(TxRow(u, change, type, r), Len(credit_transactions),
                  Now(credit_transactions))]
Logged(u, change, type, r) ==
    Insert(credit_transactions, TxRow(u, change, type, r))

\* Where a generation handler goes after its debit rpc returned `result`.
\* server_with_auth.js looks at the rpc's error only, never at the boolean
\* it returns; server.js logs the error and goes on; api/auth/
\* generate-headshot.js looks at neither.
AfterDebit(q, result) ==
    IF q.kind = "headshotAuth"
        THEN IF result = "error"
                THEN Respond([q EXCEPT !.rpc = result], "error")
                ELSE [q EXCEPT !.rpc = result, !.pc = "run"]
        ELSE [q EXCEPT !.rpc = result, !.pc = "record"]

\* rpc('update_user_credits', {credit_change: -1, 'usage'}): the SELECT and
\* the check, or an error of the call before anything is written.
update_user_credits_select(r) ==
    LET q == req[r]
        cur == user_profiles[q.user].credits
    IN  /\ q.pc = "debitSel"
        /\ \E failed \in BOOLEAN :
              IF failed
                 THEN Set(r, AfterDebit(q, "error"))
              ELSE IF CheckFails(cur, -Cost)
                 THEN Set(r, AfterDebit([q EXCEPT !.current_credits = cur], "false"))
              ELSE Set(r, [q EXCEPT !.current_credits = cur, !.pc = "debitUpd"])
        /\ UNCHANGED <<auth_users, user_profiles, credit_transactions, generations>>

\* ... its UPDATE and INSERT, and RETURN TRUE.
update_user_credits_apply(r) ==
    LET q == req[r]
    IN  /\ q.pc = "debitUpd"
        /\ user_profiles' = Credited(q.user, -Cost)
        /\ credit_transactions' = Logged(q.user, -Cost, "usage", r)
        /\ Set(r, AfterDebit([q EXCEPT !.debited = @ + Cost], "true"))
        /\ UNCHANGED <<auth_users, generations>>

\* ------------------------------------------------------------ provider
\* Where a generation handler goes after replicate.run returned or threw.
AfterRunMut(q, out) ==
    CASE q.kind = "imageEdit" ->
            [q EXCEPT !.pc = IF out = "ok" THEN "debitSel"
                             ELSE IF q.ran < 2 THEN "run" ELSE "catch"]
      [] q.kind = "apiHeadshot" ->
            IF out = "ok" THEN [q EXCEPT !.pc = "debitSel"] ELSE Respond(q, "none")
      [] q.kind = "headshotAuth" ->
            [q EXCEPT !.pc = IF out = "ok" THEN "record" ELSE "refund"]
      [] q.kind = "headshotCredits" ->
            IF out = "ok" THEN [q EXCEPT !.pc = "update"] ELSE Respond(q, "error")
      [] OTHER ->
            Respond(q, IF out = "ok" THEN "ok" ELSE "error")
AfterRun(q, out) ==
    CASE q.kind = "imageEdit" ->
            [q EXCEPT !.pc = IF out = "ok" THEN "debitSel" ELSE "catch"]
      [] q.kind = "apiHeadshot" ->
            \* the throw leaves the async form.parse callback: no catch
            \* runs and no response is sent
            IF out = "ok" THEN [q EXCEPT !.pc = "debitSel"] ELSE Respond(q, "none")
      [] q.kind = "headshotAuth" ->
            [q EXCEPT !.pc = IF out = "ok" THEN "record" ELSE "refund"]
      [] q.kind = "headshotCredits" ->
            IF out = "ok" THEN [q EXCEPT !.pc = "update"] ELSE Respond(q, "error")
      [] OTHER ->  \* generate2
            Respond(q, IF out = "ok" THEN "ok" ELSE "error")

\* await replicate.run(...): returns the output or throws.
replicate_run(r) ==
    LET q == req[r]
    IN  /\ q.pc = "run"
        /\ \E out \in {"ok", "fail"} :
              Set(r, AfterRun([q EXCEPT !.ran = @ + 1, !.output = out,
                                        !.paidAtRun = (q.debited > 0)], out))
        /\ UNCHANGED <<auth_users, user_profiles, credit_transactions, generations>>

\* insert({..., credits_used: 1, status: 'completed'}); its error is logged
\* at most.  Then the success response (server_with_auth.js re-reads the
\* balance for it).
insert_completed(r) ==
    LET q == req[r]
    IN  /\ q.pc = "record"
        /\ \E failed \in BOOLEAN :
              generations' =
                  IF failed THEN generations
                  ELSE Insert(generations, GenRow(q.user, "completed", TRUE, Cost, r))
        /\ Set(r, Respond(q, "ok"))
        /\ UNCHANGED <<auth_users, user_profiles, credit_transactions>>

\* server.js catch: insert({..., credits_used: 0, status: 'failed'}), 500.
insert_failed(r) ==
    LET q == req[r]
    IN  /\ q.pc = "catch"
        /\ \E failed \in BOOLEAN :
              generations' =
                  IF failed THEN generations
                  ELSE Insert(generations, GenRow(q.user, "failed", FALSE, 0, r))
        /\ Set(r, Respond(q, "error"))
        /\ UNCHANGED <<auth_users, user_profiles, credit_transactions>>

\* server_with_auth.js catch: rpc(update_user_credits, +1, 'refund') inside
\* try/catch, then the 500 response.  The call resolves to {data, error}
\* and the handler does not look at it; only a rejected call reaches
\* console.error('Refund error:').
RefundDone(q, result) ==
    Respond([q EXCEPT !.refund = result,
                      !.refundError = (result = "thrown"),
                      !.credited = IF result = "true" THEN @ + Cost ELSE @],
            "error")

refund(r) ==
    LET q == req[r]
    IN  /\ q.pc = "refund"
        /\ \E result \in {"true", "error", "thrown"} :
              /\ Set(r, RefundDone(q, result))
              /\ IF result = "true"
                    THEN /\ user_profiles' = Credited(q.user, Cost)
                         /\ credit_transactions' = Logged(q.user, Cost, "refund", r)
                    ELSE UNCHANGED <<user_profiles, credit_transactions>>
        /\ UNCHANGED <<auth_users, generations>>

\* ------------------------------------------- server 2.js /api/generate
\* select('credits') of the profile, and the credits < 1 check.
generate_profile(r) ==
    LET q == req[r]
        p == user_profiles[q.user]
    IN  /\ q.pc = "profile"
        /\ Set(r, IF ~p.present THEN Respond(q, "error")
                  ELSE IF Insufficient(p.credits)
                     THEN Respond([q EXCEPT !.authenticated = TRUE,
                                            !.credits = p.credits], "insufficient")
                  ELSE [q EXCEPT !.authenticated = TRUE, !.credits = p.credits,
                                 !.pc = "deduct"])
        /\ UNCHANGED <<auth_users, user_profiles, credit_transactions, generations>>

\* update({credits: profile.credits - 1}); deductError ends the request.
generate_deduct(r) ==
    LET q == req[r]
    IN  /\ q.pc = "deduct"
        /\ \E failed \in BOOLEAN :
              IF failed
                 THEN /\ Set(r, Respond(q, "error"))
                      /\ UNCHANGED user_profiles
                 ELSE /\ user_profiles' =
                             [user_profiles EXCEPT ![q.user].credits = q.credits - Cost]
                      /\ Set(r, [q EXCEPT !.debited = @ + Cost, !.pc = "log"])
        /\ UNCHANGED <<auth_users, credit_transactions, generations>>

\* insert([{amount: -1, type: 'usage'}]); its result is not looked at.
generate_log(r) ==
    LET q == req[r]
    IN  /\ q.pc = "log"
        /\ \E failed \in BOOLEAN :
              credit_transactions' =
                  IF failed THEN credit_transactions
                  ELSE Logged(q.user, -Cost, "usage", r)
        /\ Set(r, [q EXCEPT !.pc = "run"])
        /\ UNCHANGED <<auth_users, user_profiles, generations>>

\* ------------------------------ server_with_credits.js /generate-headshot
\* update({credits: req.user.credits - 1}) after the provider returned; an
\* updateError is logged and the handler goes on.
headshot_deduct(r) ==
    LET q == req[r]
    IN  /\ q.pc = "update"
        /\ \E failed \in BOOLEAN :
              IF failed
                 THEN /\ Set(r, [q EXCEPT !.pc = "record"])
                      /\ UNCHANGED user_profiles
                 ELSE /\ user_profiles' =
                             [user_profiles EXCEPT ![q.user].credits = q.credits - Cost]
                      /\ Set(r, [q EXCEPT !.debited = @ + Cost, !.pc = "record"])
        /\ UNCHANGED <<auth_users, credit_transactions, generations>>

\* ------------------------------------------ server.js /api/auth/purchase
\* rpc(update_user_credits, +amount, 'purchase'); error or !data is a 500.
purchase_credit(r) ==
    LET q == req[r]
    IN  /\ q.pc = "credit"
        /\ \E failed \in BOOLEAN :
              IF failed
                 THEN /\ Set(r, Respond(q, "error"))
                      /\ UNCHANGED <<user_profiles, credit_transactions>>
                 ELSE /\ user_profiles' = Credited(q.user, q.amount)
                      /\ credit_transactions' = Logged(q.user, q.amount, "purchase", r)
                      /\ Set(r, [q EXCEPT !.credited = @ + q.amount, !.pc = "total"])
        /\ UNCHANGED <<auth_users, generations>>

\* update({total_credits_purchased: req.user.total_credits_purchased +
\* amount}), the re-read of the profile and the success response.
purchase_total(r) ==
    LET q == req[r]
    IN  /\ q.pc = "total"
        /\ user_profiles' =
               [user_profiles EXCEPT
                   ![q.user].total_credits_purchased = q.total + q.amount]
        /\ Set(r, Respond(q, "ok"))
        /\ UNCHANGED <<auth_users, credit_transactions, generations>>

\* A purchase request with any body.
purchase_request(r) ==
    /\ Arrives(r)
    /\ \E q \in Arriving(PurchaseKinds, PurchaseInputs) : Set(r, q)
    /\ UNCHANGED <<auth_users, user_profiles, credit_transactions, generations>>

\* ------------------------------------------ unnamed/part_001 (purchase)
\* rpc(update_user_credits, +amount, 'purchase') for decoded.userId; error
\* or !data is a 500.  For an account without profile the function's SELECT
\* finds no row, its check does not apply to a positive change, its UPDATE
\* updates no row, its INSERT writes the ledger row and it returns TRUE.
\* The update that follows sets total_credits_purchased to
\* data.total_credits_purchased, which the boolean `data` does not have: no
\* column is written.  Then the success response.
api_purchase_credit(r) ==
    LET q == req[r]
        paid == IF user_profiles[q.user].present THEN q.amount ELSE 0
    IN  /\ q.pc = "apiCredit"
        /\ \E failed \in BOOLEAN :
              IF failed
                 THEN /\ Set(r, Respond([q EXCEPT !.rpc = "error"], "error"))
                      /\ UNCHANGED <<user_profiles, credit_transactions>>
                 ELSE /\ user_profiles' = Credited(q.user, q.amount)
                      /\ credit_transactions' = Logged(q.user, q.amount, "purchase", r)
                      /\ Set(r, Respond([q EXCEPT !.rpc = "true",
                                                  !.credited = @ + paid], "ok"))
        /\ UNCHANGED <<auth_users, generations>>

\* ------------------------------ server_with_credits.js /api/purchase-credits
\* insert([{..., credits_purchased: package.credits, status: 'completed'}]);
\* a transactionError is a 500.
mock_purchase_insert(r) ==
    LET q == req[r]
    IN  /\ q.pc = "mockTx"
        /\ \E failed \in BOOLEAN :
              IF failed
                 THEN /\ Set(r, Respond(q, "error"))
                      /\ UNCHANGED credit_transactions
                 ELSE /\ credit_transactions' =
                             Logged(q.user, q.amount, "purchase", r)
                      /\ Set(r, [q EXCEPT !.pc = "mockUpdate"])
        /\ UNCHANGED <<auth_users, user_profiles, generations>>

\* update({credits: req.user.credits + package.credits}); an updateError is
\* a 500, after the transaction row was written.
mock_purchase_update(r) ==
    LET q == req[r]
    IN  /\ q.pc = "mockUpdate"
        /\ \E failed \in BOOLEAN :
              IF failed
                 THEN /\ Set(r, Respond(q, "error"))
                      /\ UNCHANGED user_profiles
                 ELSE /\ user_profiles' =
                             [user_profiles EXCEPT
                                 ![q.user].credits = q.credits + q.amount]
                      /\ Set(r, Respond([q EXCEPT !.credited = @ + q.amount], "ok"))
        /\ UNCHANGED <<auth_users, credit_transactions, generations>>

\* --------------------------------------- server 2.js /api/buy-credits
\* update({credits: supabase.raw(`credits + ${amount}`)}).select().single():
\* the amount is not looked at before.  A throw or an error is a 500.
buy_credits_update(r) ==
    LET q == req[r]
    IN  /\ q.pc = "buy"
        /\ \E failed \in BOOLEAN :
              IF failed \/ ~user_profiles[q.user].present
                 THEN /\ Set(r, Respond(q, "error"))
                      /\ UNCHANGED user_profiles
                 ELSE /\ user_profiles' = Credited(q.user, q.amount)
                      /\ Set(r, [q EXCEPT !.credited = @ + q.amount,
                                          !.pc = "buyLog"])
        /\ UNCHANGED <<auth_users, credit_transactions, generations>>

\* insert([{amount: amount, type: 'purchase'}]), its result not looked at,
\* and the success response.
buy_credits_log(r) ==
    LET q == req[r]
    IN  /\ q.pc = "buyLog"
        /\ \E failed \in BOOLEAN :
              credit_transactions' =
                  IF failed THEN credit_transactions
                  ELSE Logged(q.user, q.amount, "purchase", r)
        /\ Set(r, Respond(q, "ok"))
        /\ UNCHANGED <<auth_users, user_profiles, generations>>

\* ------------------------------------- server.js /api/auth/stripe-webhook
\* select('id, credits').eq('email', email); 'User not found' is caught and
\* logged, and the webhook answers 200 either way.
Delivered(q) ==
    LET p == user_profiles[q.user]
    IN  IF q.amount # 0 /\ p.present    \* if (email && credits && quantity)
           THEN [q EXCEPT !.credits = p.credits, !.pc = "whUpdate"]
           ELSE Respond(q, "ok")

\* The checkout.session.completed event of a new session.
webhook_select(r) ==
    /\ Arrives(r)
    /\ \E u \in Accounts, n \in Amounts :
          Set(r, Delivered([NewReq("webhook", u, n) EXCEPT !.session = r]))
    /\ UNCHANGED <<auth_users, user_profiles, credit_transactions, generations>>

\* update({credits: (user.credits || 0) + credits * quantity})
webhook_update(r) ==
    LET q == req[r]
    IN  /\ q.pc = "whUpdate"
        /\ user_profiles' =
               [user_profiles EXCEPT ![q.user].credits = q.credits + q.amount]
        /\ Set(r, Respond([q EXCEPT !.credited = @ + q.amount], "ok"))
        /\ UNCHANGED <<auth_users, credit_transactions, generations>>

\* The credits a checkout session's metadata may carry (0: none).
SessionCredits == {0, 1, 2}

\* Stripe delivers an event: that of a new session, or once more that of a
\* session it delivered before.  The handler is the same for both.
webhook_deliver(r) ==
    /\ Arrives(r)
    /\ \/ \E u \in Accounts, n \in SessionCredits :
             Set(r, Delivered([NewReq("webhook", u, n) EXCEPT !.session = r]))
       \/ \E d \in 1..(r - 1) :
             /\ req[d].kind = "webhook"
             /\ Set(r, Delivered([NewReq("webhook", req[d].user, req[d].amount)
                                     EXCEPT !.session = req[d].session]))
    /\ UNCHANGED <<auth_users, user_profiles, credit_transactions, generations>>

\* ------------------------------------------------------------- signup
\* auth.signUp.  handle_new_user, where the trigger is installed, inserts
\* the profile and the bonus row in the transaction of the auth.users row.
signUp(r) ==
    /\ Arrives(r)
    /\ \E u \in Accounts :
          LET q == NewReq("signup", u, 0)
          IN  IF u \in auth_users
                 THEN /\ Set(r, Respond(q, "error"))
                      /\ UNCHANGED <<auth_users, user_profiles, credit_transactions>>
                 ELSE /\ auth_users' = auth_users \cup {u}
                      /\ \E trigger \in BOOLEAN :
                            IF trigger
                               THEN /\ Set(r, [q EXCEPT !.credited = WelcomeBonus,
                                                        !.pc = "poll"])
                                    /\ user_profiles' =
                                           [user_profiles EXCEPT
                                               ![u] = Profile(WelcomeBonus, 0)]
                                    /\ credit_transactions' =
                                           Logged(u, WelcomeBonus, "bonus", r)
                               ELSE /\ Set(r, [q EXCEPT !.pc = "poll"])
                                    /\ UNCHANGED <<user_profiles, credit_transactions>>
    /\ UNCHANGED generations

\* The polling loop (maxTries selects of the profile, 300 ms apart).  No
\* other request creates the profile meanwhile: a second signUp of the
\* account is refused.
signup_poll(r) ==
    LET q == req[r]
        p == user_profiles[q.user]
    IN  /\ q.pc = "poll"
        /\ Set(r, IF p.present
                     THEN Respond([q EXCEPT !.credits = p.credits], "ok")
                     ELSE [q EXCEPT !.pc = "insertProfile"])
        /\ UNCHANGED <<auth_users, user_profiles, credit_transactions, generations>>

\* insert({credits: 10, total_credits_purchased: 0}), an insertError being a
\* 500, and the fetch of the new row, a fetchError being the same 500.
signup_insert(r) ==
    LET q == req[r]
    IN  /\ q.pc = "insertProfile"
        /\ \E result \in {"insertError", "fetchError", "ok"} :
              IF result = "insertError" \/ user_profiles[q.user].present
                 THEN /\ Set(r, Respond(q, "error"))
                      /\ UNCHANGED user_profiles
                 ELSE /\ user_profiles' =
                             [user_profiles EXCEPT ![q.user] = Profile(WelcomeBonus, 0)]
                      /\ Set(r, IF result = "fetchError"
                                   THEN Respond([q EXCEPT !.credited = WelcomeBonus],
                                                "error")
                                   ELSE Respond([q EXCEPT !.credits = WelcomeBonus,
                                                          !.credited = WelcomeBonus],
                                                "ok"))
        /\ UNCHANGED <<auth_users, credit_transactions, generations>>

\* ------------------------------------------------------------ listings
Reverse(s) == [i \in 1..Len(s) |-> s[Len(s) + 1 - i]]

\* .eq('user_id', u).order('created_at', {ascending: false}).  A table
\* holds its rows in order of insertion, oldest first.
NewestMut(table, u) == RowsOf(table, u)
Newest(table, u) == Reverse(RowsOf(table, u))

Swapped(s, i) == [s EXCEPT ![i] = s[i + 1], ![i + 1] = s[i]]

\* ORDER BY created_at alone leaves the order of rows with equal created_at
\* to the database: either row of such a pair may come first.
Orders(s) ==
    {s} \cup {Swapped(s, i) : i \in {i \in 1..(Len(s) - 1) :
                                       s[i].created_at = s[i + 1].created_at}}

\* .limit(n)
Limited(s, n) == SubSeq(s, 1, IF Len(s) < n THEN Len(s) ELSE n)

\* The results the query may return.
Listings(table, u, n) == {Limited(o, n) : o \in Orders(Newest(table, u))}

TableOf(k) == IF k = "history" THEN generations ELSE credit_transactions

LimitOf(k) == IF k = "history" THEN HistoryLimit ELSE TransactionsLimit

\* GET /api/auth/history and GET /api/user/transactions: authenticateUser,
\* the query, and the response with its rows or a 500.
list_history(r) ==
    /\ Arrives(r)
    /\ \E k \in ListKinds, u \in Accounts :
          LET q == NewReq(k, u, 0)
          IN  IF ~user_profiles[u].present
                 THEN Set(r, Respond(q, "unauthorized"))
                 ELSE \E failed \in BOOLEAN :
                         IF failed
                            THEN Set(r, Respond([q EXCEPT !.authenticated = TRUE],
                                                "error"))
                            ELSE \E rows \in Listings(TableOf(k), u, LimitOf(k)) :
                                    Set(r, Respond([q EXCEPT
                                                      !.authenticated = TRUE,
                                                      !.rows = rows,
                                                      !.seen = Len(TableOf(k))],
                                                   "ok"))
    /\ UNCHANGED <<auth_users, user_profiles, credit_transactions, generations>>

Next ==
    \E r \in Reqs :
        \/ authenticateUser(r)
        \/ update_user_credits_select(r)
        \/ update_user_credits_apply(r)
        \/ replicate_run(r)
        \/ insert_completed(r)
        \/ insert_failed(r)
        \/ refund(r)
        \/ generate_profile(r)
        \/ generate_deduct(r)
        \/ generate_log(r)
        \/ headshot_deduct(r)
        \/ purchase_credit(r)
        \/ purchase_total(r)
        \/ webhook_select(r)
        \/ webhook_update(r)
        \/ signUp(r)
        \/ signup_poll(r)
        \/ signup_insert(r)

Spec == Init /\ [][Next]_vars

\* Purchases with every body a purchase request may carry, and signups.
NextPurchase ==
    \E r \in Reqs :
        \/ purchase_request(r)
        \/ purchase_credit(r)
        \/ purchase_total(r)
        \/ buy_credits_update(r)
        \/ buy_credits_log(r)
        \/ api_purchase_credit(r)
        \/ mock_purchase_insert(r)
        \/ mock_purchase_update(r)
        \/ signUp(r)
        \/ signup_poll(r)
        \/ signup_insert(r)

SpecPurchase == Init /\ [][NextPurchase]_vars

\* Webhook deliveries only, with redelivery.
NextWebhook ==
    \E r \in Reqs :
        \/ webhook_deliver(r)
        \/ webhook_update(r)

SpecWebhook == Init /\ [][NextWebhook]_vars

\* The tokens a request may carry: one the server issued and still
\* accepts, one that jwt.verify / auth.getUser refuses (forged, expired),
\* or none.
Tokens == {"valid", "invalid", "none"}

\* A generation or purchase request with any token.
request_with_token(r) ==
    /\ Arrives(r)
    /\ \E q \in Arriving(GenKinds \cup PurchaseKinds, Amounts), t \in Tokens :
          Set(r, Authenticated([NewReq(q.kind, q.user, q.amount)
                                   EXCEPT !.token = t]))
    /\ UNCHANGED <<auth_users, user_profiles, credit_transactions, generations>>

\* Generations and purchases, requested with and without a valid token.
NextAuth ==
    \E r \in Reqs :
        \/ request_with_token(r)
        \/ update_user_credits_select(r)
        \/ update_user_credits_apply(r)
        \/ replicate_run(r)
        \/ insert_completed(r)
        \/ insert_failed(r)
        \/ refund(r)
        \/ generate_profile(r)
        \/ generate_deduct(r)
        \/ generate_log(r)
        \/ headshot_deduct(r)
        \/ purchase_credit(r)
        \/ purchase_total(r)
        \/ buy_credits_update(r)
        \/ buy_credits_log(r)
        \/ api_purchase_credit(r)
        \/ mock_purchase_insert(r)
        \/ mock_purchase_update(r)

SpecAuth == Init /\ [][NextAuth]_vars

\* ------------------------------------------------- listings of a long past
\* created_at of the i-th generation of a past in which generations j and
\* j + 1 fell on the same reading of the clock (j = 0: no two did).
StampAt(i, j) == IF j > 0 /\ i > j THEN i + 1 ELSE i + 2

\* The numbers of generations in an account's past: below, at and beyond
\* the limits of the listings (the ledger holds two rows more).
PastSizes ==
    {1, HistoryLimit, HistoryLimit + MaxOver,
     TransactionsLimit - 2, TransactionsLimit - 2 + MaxOver}

\* An account that was registered through the trigger, bought k credits and
\* used them on k completed generations.
PastLedger(u, k, j) ==
    <<Stamp(TxRow(u, WelcomeBonus, "bonus", 0), 1, 1),
      Stamp(TxRow(u, k, "purchase", 0), 2, 2)>> \o
    [i \in 1..k |-> Stamp(TxRow(u, -Cost, "usage", 0), i + 2, StampAt(i, j))]

PastHistory(u, k, j) ==
    [i \in 1..k |->
        Stamp(GenRow(u, "completed", TRUE, Cost, 0), i, StampAt(i, j))]

\* Where the two generations of equal created_at lie: none (0), among the
\* oldest, which is where a limit cuts, or the two newest.
TiePositions(k) == {j \in 0..(k - 1) : j <= MaxOver + 1 \/ j = k - 1}

InitHistory ==
    \E k \in PastSizes :
        \E j \in TiePositions(k) :
            /\ auth_users = {"alice"}
            /\ user_profiles =
                   [u \in Accounts |->
                       IF u = "alice" THEN Profile(WelcomeBonus, k) ELSE NoProfile]
            /\ credit_transactions = PastLedger("alice", k, j)
            /\ generations = PastHistory("alice", k, j)
            /\ req = [r \in Reqs |-> IdleReq]

\* Listings, and signups as the writes that come between them.
NextHistory ==
    \E r \in Reqs :
        \/ list_history(r)
        \/ signUp(r)
        \/ signup_poll(r)
        \/ signup_insert(r)

SpecHistory == InitHistory /\ [][NextHistory]_vars

\* ================================================================ claims
TxCount(r, type) ==
    Len(SelectSeq(credit_transactions,
                  LAMBDA row : row.req = r /\ row.transaction_type = type))

GenCount(r, st) ==
    Len(SelectSeq(generations, LAMBDA row : row.req = r /\ row.status = st))

\* credits debited from / added to the account by the requests so far
Debits(u) ==
    LET f[n \in 0..MaxReqs] ==
            IF n = 0 THEN 0
            ELSE f[n - 1] + (IF req[n].user = u THEN req[n].debited ELSE 0)
    IN  f[MaxReqs]

Credits(u) ==
    LET f[n \in 0..MaxReqs] ==
            IF n = 0 THEN 0
            ELSE f[n - 1] + (IF req[n].user = u THEN req[n].credited ELSE 0)
    IN  f[MaxReqs]

\* r is the only request that has arrived
Alone(r) == \A q \in Reqs \ {r} : req[q].pc = "idle"

\* C1: after any interleaving of signup, purchase, webhook credit,
\* generation and refund, the stored balance of every account is >= 0.
C1_BalanceNonNegative ==
    \A u \in Accounts : user_profiles[u].credits >= 0

\* C2: the usage debits that succeed against one account never cost more in
\* total than the balance covers (its opening balance plus the credits added
\* since); two concurrent debits of 1 against a balance of 1 never both
\* succeed.
C2_NoOverdraftRace ==
    \A u \in Accounts : Debits(u) <= Opening(u) + Credits(u)

\* C3: for every account the stored balance equals the sum of the amounts
\* of its credit_transactions rows.
C3_Reconciled ==
    \A u \in Accounts :
        user_profiles[u].present => user_profiles[u].credits = LedgerSum(u)

\* C4: in the handlers that reserve first, a usage debit refused for
\* insufficient balance aborts the request: the provider is never invoked.
C4_RefusedDebitAborts ==
    \A r \in Reqs :
        (/\ req[r].kind \in ReserveFirst
         /\ (req[r].rpc = "false" \/ req[r].res = "insufficient"))
        => req[r].ran = 0

\* C5: a request whose debit of 1 succeeded and whose provider call then
\* failed ends with one usage row of -1, one refund row of +1 and exactly
\* one generation row, 'failed' and without result; with no other request
\* the balance is the opening balance again.
C5_ReserveThenFail ==
    \A r \in Reqs :
        (/\ req[r].kind \in GenKinds
         /\ req[r].pc = "done"
         /\ req[r].paidAtRun
         /\ req[r].output = "fail")
        => /\ TxCount(r, "usage") = 1
           /\ TxCount(r, "refund") = 1
           /\ GenCount(r, "failed") = 1
           /\ GenCount(r, "completed") = 0
           /\ \A i \in 1..Len(generations) :
                 generations[i].req = r => ~generations[i].image_url
           /\ Alone(r) => user_profiles[req[r].user].credits = Opening(req[r].user)

\* C6: a request whose provider call succeeded and that answered success
\* wrote exactly one usage row of -1, no refund row and exactly one
\* 'completed' generation row; with no other request the balance is the
\* opening balance minus 1.
C6_ReserveThenSucceed ==
    \A r \in Reqs :
        (/\ req[r].kind \in GenKinds
         /\ req[r].pc = "done"
         /\ req[r].output = "ok"
         /\ req[r].res = "ok")
        => /\ TxCount(r, "usage") = 1
           /\ TxCount(r, "refund") = 0
           /\ GenCount(r, "completed") = 1
           /\ GenCount(r, "failed") = 0
           /\ Alone(r) =>
                 user_profiles[req[r].user].credits = Opening(req[r].user) - Cost

\* C7: a generation request that reads a stored balance of 0 is rejected
\* with the insufficient-credits error; the provider is not invoked and the
\* request writes no credit_transactions row and no generation row.
C7_InsufficientShortCircuit ==
    \A r \in Reqs :
        (/\ req[r].kind \in GenKinds
         /\ req[r].authenticated
         /\ req[r].credits = 0)
        => /\ req[r].pc = "done"
           /\ req[r].res = "insufficient"
           /\ req[r].ran = 0
           /\ req[r].debited = 0
           /\ RowsOfReq(credit_transactions, r) = <<>>
           /\ RowsOfReq(generations, r) = <<>>

C7_Witness ==
    \E r \in Reqs :
        /\ req[r].kind \in GenKinds
        /\ req[r].authenticated
        /\ req[r].credits = 0
        /\ user_profiles[req[r].user].credits = 0
        /\ req[r].res = "insufficient"

\* C8: a debit through update_user_credits whose amount exceeds the balance
\* the function reads returns FALSE and changes nothing: the request's rpc
\* neither changes the balance nor writes a credit_transactions row.
C8_RefusedDebitChangesNothing ==
    \A r \in Reqs :
        (/\ req[r].pc = "debitUpd" \/ req[r].rpc \in {"true", "false"}
         /\ req[r].current_credits < Cost)
        => /\ req[r].rpc = "false"
           /\ req[r].debited = 0
           /\ TxCount(r, "usage") = 0

C8_Witness ==
    \E r \in Reqs :
        /\ req[r].rpc = "false"
        /\ req[r].current_credits = 0
        /\ req[r].credits >= Cost

\* C9: every step that changes an account's balance writes, in the same
\* step, credit_transactions rows of that amount, and every step that
\* writes a row changes the balance by its amount.
C9_AtomicWithLedger ==
    [][\A u \in Accounts :
          user_profiles'[u].credits - user_profiles[u].credits
              = LedgerSum(u)' - LedgerSum(u)]_vars

\* C10: whenever the provider has been invoked for a request, the usage
\* debit of that request had been applied to the stored balance before.
C10_DebitBeforeExecute ==
    \A r \in Reqs : req[r].ran > 0 => req[r].paidAtRun
\* C11: a refund that failed is reported: whenever the refund rpc of a
\* request did not succeed, the handler has written its refund error to the
\* log.
C11_FailedRefundReported ==
    \A r \in Reqs :
        req[r].refund \in {"error", "thrown"} => req[r].refundError

\* C12: every reservation is settled: a generation request that has ended
\* (no step of it is left, and no other process acts for it) and whose usage
\* debit was applied before the provider ran has a 'completed' generation
\* record or a refund.
C12_ReservationSettled ==
    \A r \in Reqs :
        (req[r].kind \in GenKinds /\ req[r].pc = "done" /\ req[r].paidAtRun)
            => (GenCount(r, "completed") >= 1 \/ req[r].refund = "true")

\* C13: a generation attempt that reached the provider and has ended left
\* exactly one generation record, 'completed' or 'failed'.
C13_OneRecordPerAttempt ==
    \A r \in Reqs :
        (req[r].pc = "done" /\ req[r].ran > 0)
            => GenCount(r, "completed") + GenCount(r, "failed") = 1

\* C14: total_credits_purchased never decreases: no step stores a value
\* smaller than the one it replaces.
C14_TotalPurchasedMonotone ==
    [][\A u \in Accounts :
          user_profiles'[u].total_credits_purchased
              >= user_profiles[u].total_credits_purchased]_vars

\* C20: a purchase request whose amount is missing, zero or negative is
\* answered 400 and changes nothing: it adds nothing to the balance and
\* writes no ledger row (total_credits_purchased is only written after the
\* balance was credited).
C20_InvalidAmountRejected ==
    \A r \in Reqs :
        (req[r].kind \in PurchaseKinds /\ req[r].authenticated
                /\ req[r].amount <= 0)
            => /\ req[r].pc = "done" => req[r].res = "invalid"
               /\ req[r].pc \notin {"credit", "total", "buyLog"}
               /\ req[r].credited = 0
               /\ RowsOfReq(credit_transactions, r) = <<>>

\* C15: a signup that answered success left the account's profile in place
\* with the starting balance of 10 credits, and a signup that answered an
\* error created no profile.
C15_SignupAllOrNothing ==
    \A r \in Reqs :
        (req[r].kind = "signup" /\ req[r].pc = "done")
            => /\ req[r].res = "ok" =>
                     /\ user_profiles[req[r].user].present
                     /\ req[r].credits = WelcomeBonus
               /\ req[r].res = "error" => req[r].credited = 0

\* C16: the provider is invoked at most once per generation request: a
\* provider failure is not retried by the handler.
C16_ProviderAtMostOnce ==
    \A r \in Reqs : req[r].ran <= 1

\* A request whose one provider call failed has ended.
C16_Witness ==
    \E r \in Reqs :
        req[r].pc = "done" /\ req[r].output = "fail" /\ req[r].ran = 1

\* C17: the ledger is append-only: every step leaves the rows already in
\* credit_transactions in place and unchanged, adding rows at the end at
\* most.
C17_LedgerAppendOnly ==
    [][/\ Len(credit_transactions') >= Len(credit_transactions)
       /\ SubSeq(credit_transactions', 1, Len(credit_transactions))
              = credit_transactions]_vars

\* Two requests have each written a row after the rows of the past.
C17_Witness ==
    \E r1, r2 \in Reqs :
        /\ r1 # r2
        /\ RowsOfReq(credit_transactions, r1) # <<>>
        /\ RowsOfReq(credit_transactions, r2) # <<>>

\* The table a listing request read, as it was when the request read it
\* (rows are only ever added at the end).
TableAt(r) == SubSeq(TableOf(req[r].kind), 1, req[r].seen)

\* C18: a listing returns at most `limit` rows, all of them rows of the
\* account, newest first by created_at, and they are the most recent rows:
\* as many as the limit allows, no row twice, and no row left out is newer
\* than a row returned.
C18_ListingNewestFirst ==
    \A r \in Reqs :
        (req[r].kind \in ListKinds /\ req[r].res = "ok") =>
            LET rows == req[r].rows
                mine == RowsOf(TableAt(r), req[r].user)
                n    == LimitOf(req[r].kind)
                Out  == {m \in 1..Len(mine) :
                            \A i \in 1..Len(rows) : rows[i] # mine[m]}
            IN  /\ Len(rows) = IF Len(mine) < n THEN Len(mine) ELSE n
                /\ \A i \in 1..Len(rows) :
                      /\ rows[i].user_id = req[r].user
                      /\ \E m \in 1..Len(mine) : mine[m] = rows[i]
                /\ \A i, k \in 1..Len(rows) :
                      i < k => /\ rows[i].created_at >= rows[k].created_at
                               /\ rows[i] # rows[k]
                /\ \A m \in Out : \A i \in 1..Len(rows) :
                      mine[m].created_at <= rows[i].created_at

\* A listing was cut at the limit, read from a table that also holds a row
\* of another account.
C18_Witness ==
    \E r \in Reqs :
        /\ req[r].kind \in ListKinds /\ req[r].res = "ok"
        /\ Len(req[r].rows) = LimitOf(req[r].kind)
        /\ Len(RowsOf(TableAt(r), req[r].user)) > LimitOf(req[r].kind)
        /\ \E i \in 1..req[r].seen : TableAt(r)[i].user_id # req[r].user

\* C19: two listings of the same kind for the same account that read the
\* same table contents returned the same rows in the same order.
C19_ListingRepeatable ==
    \A r1, r2 \in Reqs :
        (/\ req[r1].kind \in ListKinds /\ req[r2].kind = req[r1].kind
         /\ req[r1].user = req[r2].user
         /\ req[r1].res = "ok" /\ req[r2].res = "ok"
         /\ req[r1].seen = req[r2].seen)
            => req[r1].rows = req[r2].rows

\* C22: a refund is applied only for a request whose own usage debit was
\* applied: a request that was refunded had been debited.
C22_RefundOnlyAfterDebit ==
    \A r \in Reqs : req[r].refund = "true" => req[r].debited > 0

\* C23: no credit is lost or overwritten under interleaving: once every
\* request has ended, each account's stored balance is the balance it
\* started with, plus what the requests credited, minus what they debited.
C23_NoLostUpdate ==
    (\A r \in Reqs : req[r].pc \in {"idle", "done"}) =>
        \A u \in Accounts :
            user_profiles[u].present =>
                user_profiles[u].credits = Opening(u) + Credits(u) - Debits(u)

\* C24: crediting is idempotent per checkout session: when every delivery
\* has ended and all of them were deliveries of one session of an existing
\* account, the balance has grown by the session's credits exactly once.
C24_WebhookIdempotent ==
    \A u \in Accounts :
        (/\ user_profiles[u].present
         /\ req[1].kind = "webhook" /\ req[1].user = u
         /\ \A r \in Reqs : \/ req[r].pc = "idle"
                            \/ req[r].pc = "done" /\ req[r].session = 1)
            => user_profiles[u].credits = Opening(u) + req[1].amount

\* C25: update_user_credits called for a user without user_profiles row
\* changes nothing and reports failure: it returns FALSE and writes no
\* credit_transactions row.
C25_NoProfileNoEffect ==
    \A r \in Reqs :
        (/\ req[r].kind = "apiPurchase"
         /\ req[r].rpc \in {"true", "false"}
         /\ ~user_profiles[req[r].user].present)
            => /\ req[r].rpc = "false"
               /\ RowsOfReq(credit_transactions, r) = <<>>

\* C27: in the mock purchase flow a purchase row exists if and only if the
\* purchased credits were added to the balance: a purchase request that has
\* ended wrote its row exactly if it credited the account.
C27_RowIffCredit ==
    \A r \in Reqs :
        (/\ req[r].kind = "purchaseCredits"
         /\ req[r].pc = "done" /\ req[r].amount > 0)
            => (TxCount(r, "purchase") = 1 <=> req[r].credited = req[r].amount)

\* C21: uploaded files are temporary: when a /generate-headshot request
\* that stored an uploaded file on disk has ended, with whatever response,
\* the file has been deleted.
C21_UploadDeleted ==
    \A r \in Reqs :
        (/\ req[r].kind \in {"headshotAuth", "headshotCredits"}
         /\ req[r].pc = "done" /\ req[r].file # "none")
            => req[r].file = "deleted"

\* C26: every generation request receives a response: a generation handler
\* that has ended, whatever failed inside it, has answered its request.
C26_AlwaysAnswered ==
    \A r \in Reqs :
        (req[r].kind \in GenKinds /\ req[r].pc = "done") => req[r].res # "none"

\* C28: the balance a success response reports (creditsRemaining,
\* newBalance) is the account's stored balance when the response is
\* produced, for a generation or purchase request that ran with no other
\* request on the account.
C28_ReportedIsStored ==
    [][\A r \in Reqs :
          (/\ req[r].kind \in GenKinds \cup {"purchase"}
           /\ req[r].res # "ok" /\ req'[r].res = "ok"
           /\ Alone(r))
              => Reported(req[r])' = user_profiles'[req[r].user].credits]_vars

\* C30: a generation or purchase request that carries no token or an
\* invalid token is answered 401 and has no effect: the provider is not
\* called, and no balance, ledger row or generation record is written.
C30_NoTokenNoEffect ==
    \A r \in Reqs :
        (/\ req[r].kind \in GenKinds \cup PurchaseKinds
         /\ req[r].token # "valid" /\ req[r].pc # "idle")
            => /\ req[r].pc = "done" /\ req[r].res = "unauthorized"
               /\ req[r].ran = 0
               /\ req[r].debited = 0 /\ req[r].credited = 0
               /\ RowsOfReq(credit_transactions, r) = <<>>
               /\ RowsOfReq(generations, r) = <<>>

\* C29: account isolation: a step of a generation, purchase, refund or
\* webhook request of account A changes neither the profile (balance,
\* total_credits_purchased) nor the ledger rows nor the generation records
\* of any other account B.
C29_AccountIsolation ==
    [][\A r \in Reqs :
          req'[r] # req[r] =>
              \A b \in Accounts \ {req'[r].user} :
                  /\ user_profiles'[b] = user_profiles[b]
                  /\ \/ credit_transactions' = credit_transactions
                     \/ RowsOf(credit_transactions', b) =
                            RowsOf(credit_transactions, b)
                  /\ \/ generations' = generations
                     \/ RowsOf(generations', b) = RowsOf(generations, b)]_vars

\* Both accounts have a profile, and a request of one has changed its
\* balance while the other's profile existed.
C29_Witness ==
    \E r \in Reqs, s \in Reqs :
        /\ req[s].kind = "signup" /\ req[s].pc = "done" /\ s < r
        /\ req[r].debited + req[r].credited > 0
        /\ req[r].user # req[s].user
        /\ user_profiles[req[s].user].present
        /\ user_profiles[req[r].user].present

====
